---- MODULE Spec2Model ----
(***************************************************************************)
(* Model of llvm_mode/afl-llvm-pass.so.cc (collAFL edge-hash assignment).  *)
(*                                                                         *)
(* The pass keeps its tables in process-wide globals (lines 60-70) and     *)
(* runs, per module: block discovery, random key assignment, CalcFmul      *)
(* (parameter search), CalcFhash and CalcFsingle (fallback allocation),    *)
(* the DEBUG dump (compiled in: DEBUG is #defined, line 33, and the dump   *)
(* is guarded by #ifdef), and the emission loop.                           *)
(*                                                                         *)
(* Blocks are 1..Len(M); M[b] is the predecessor list the compiler reports *)
(* for block b.  MAP_SIZE is scaled down from 2^16 to 2^MAP_SIZE_POW2.     *)
(* All values stay far below 2^32, so uint32_t arithmetic never wraps.     *)
(***************************************************************************)
EXTENDS Integers, Sequences, FiniteSets, TLC

\* log2 of the map size (16 in the program's config.h), scaled down
MAP_SIZE_POW2 == 3

MAP_SIZE == 2 ^ MAP_SIZE_POW2

\* largest module, in blocks, of the single-invocation specifications
MaxBlocks == 3

\* largest module of the specification with repeated invocations
RerunBlocks == 2

\* invocations of the pass in one process
MaxRuns == 2

VARIABLES
  M,            \* the module being compiled: M[b] = predecessor list of block b
  pc,           \* position inside runOnModule
  runs,         \* number of runOnModule invocations started in this process
  BBs, MultiBBs, SingleBBs,   \* vector<BasicBlock*>            (line 60)
  Preds,        \* map<BasicBlock*, vector<BasicBlock*>>        (line 61)
  Keys,         \* map<BasicBlock*, uint32_t>                   (line 62)
  SingleHash,   \* map<BasicBlock*, uint32_t>                   (line 64)
  Hashes,       \* set<uint32_t>                                (line 65)
  Params,       \* map<BasicBlock*, array<uint32_t,2>>          (line 66)
  Solv, UnSolv, \* vector<BasicBlock*>                          (line 67)
  HashMap,      \* map<pair<uint32_t,uint32_t>, uint32_t>       (line 68)
  FreeHashes,   \* set<uint32_t>                                (line 69)
  globalY,      \* uint32_t, zero-initialised global            (line 70)
  y,            \* loop variable of CalcFmul                    (line 113)
  i,            \* position of the loop currently running
  Emitted,      \* what the emission loop generated for each block
  junk          \* the value read by *FreeHashes.begin() on an empty set; -1 until read

vars == <<M, pc, runs, BBs, MultiBBs, SingleBBs, Preds, Keys, SingleHash, Hashes,
          Params, Solv, UnSolv, HashMap, FreeHashes, globalY, y, i, Emitted, junk>>

----------------------------------------------------------------------------
(* Helpers: integer operations and std::map / std::vector behaviour.       *)

\* a >> n on unsigned integers
Shr(a, n) == a \div (2 ^ n)

\* a xor b on unsigned integers, bit by bit
RECURSIVE Xor(_, _)
Xor(a, b) ==
  IF a = 0 THEN b
  ELSE IF b = 0 THEN a
  ELSE (((a % 2) + (b % 2)) % 2) + (2 * Xor(a \div 2, b \div 2))

\* the empty std::map
EmptyMap == <<>>

\* m[k] = v on a std::map
MapPut(m, k, v) == (k :> v) @@ m

\* m[k] read through operator[]: a missing key reads as the value-initialised d
MapGet(m, k, d) == IF k \in DOMAIN m THEN m[k] ELSE d

\* m[k] evaluated for its side effect only: operator[] inserts d for a missing key
MapTouch(m, k, d) == IF k \in DOMAIN m THEN m ELSE MapPut(m, k, d)

Range(s) == {s[k] : k \in 1..Len(s)}

SetMin(S) == CHOOSE m \in S : \A e \in S : m <= e

\* the ascending sequence of a set of blocks
RECURSIVE SeqOfSet(_)
SeqOfSet(S) == IF S = {} THEN <<>> ELSE <<SetMin(S)>> \o SeqOfSet(S \ {SetMin(S)})

\* the modules of the model: 1..MaxBlocks blocks, each with any set of
\* predecessors among the module's blocks (self loops included), listed once each
Modules(maxBlocks) ==
  UNION {[1..n -> {SeqOfSet(S) : S \in SUBSET (1..n)}] : n \in 1..maxBlocks}

----------------------------------------------------------------------------
(* The algorithms.                                                         *)

\* line 134: (cur >> x) xor (Keys[predBB] >> y) + z; in C++ "+" binds tighter
\* than "xor", so z is added to the shifted predecessor key before the xor
EdgeHash(cur, pred, x, yy, z) == Xor(Shr(cur, x), Shr(pred, yy) + z)

\* isIntersection without the lookup in b: the committed hashes are forgotten
IgnoreCommitted(a, b) == TRUE

\* lines 103-110: despite its name, returns true when a and b share NO element
isIntersection(a, b) == ~ \E it_a \in a : it_a \in b

\* lines 127-141: the hashes of block BB's incoming edges under (x, y, z)
tmpHashSet(BB, x, z) ==
  {EdgeHash(Keys[BB], Keys[MapGet(Preds, BB, <<>>)[k]], x, y, z) :
     k \in 1..Len(MapGet(Preds, BB, <<>>))}

\* line 148: the acceptance test of one (x, z)
Accepts(BB, x, z) ==
  /\ Cardinality(tmpHashSet(BB, x, z)) = Len(MapGet(Preds, BB, <<>>))
  /\ isIntersection(tmpHashSet(BB, x, z), Hashes)

\* lines 126-157: the inner loop over z for a fixed x; 0 when no z is accepted
RECURSIVE SearchZ(_, _, _)
SearchZ(BB, x, z) ==
  IF z > MAP_SIZE_POW2 THEN 0
  ELSE IF Accepts(BB, x, z) THEN z
  ELSE SearchZ(BB, x, z + 1)

\* lines 122-158: the outer loop over x; <<>> when find_one stays false
RECURSIVE SearchX(_, _)
SearchX(BB, x) ==
  IF x > MAP_SIZE_POW2 THEN <<>>
  ELSE IF SearchZ(BB, x, 1) # 0 THEN <<x, SearchZ(BB, x, 1)>>
  ELSE SearchX(BB, x + 1)

----------------------------------------------------------------------------
(* The state after process start: every global table empty, globalY = 0.   *)

InitWith(modules) ==
  /\ M \in modules
  /\ pc = "discover"
  /\ runs = 1
  /\ BBs = <<>> /\ MultiBBs = <<>> /\ SingleBBs = <<>>
  /\ Preds = EmptyMap /\ Keys = EmptyMap
  /\ SingleHash = EmptyMap
  /\ Hashes = {}
  /\ Params = EmptyMap
  /\ Solv = <<>> /\ UnSolv = <<>>
  /\ HashMap = EmptyMap
  /\ FreeHashes = {}
  /\ globalY = 0
  /\ y = 0
  /\ i = 0
  /\ Emitted = EmptyMap
  /\ junk = -1

Init == InitWith(Modules(MaxBlocks))

InitRerun == InitWith(Modules(RerunBlocks))

----------------------------------------------------------------------------
(* runOnModule, step 1 (lines 245-260): append every block to BBs, classify *)
(* it by hasNPredecessors(1), append its predecessors to Preds[BB].         *)

RECURSIVE Classify(_, _)
Classify(b, single) ==
  IF b > Len(M) THEN <<>>
  ELSE (IF (Len(M[b]) = 1) = single THEN <<b>> ELSE <<>>) \o Classify(b + 1, single)

RECURSIVE AppendPreds(_, _)
AppendPreds(P, b) ==
  IF b > Len(M) THEN P
  ELSE AppendPreds(IF M[b] = <<>> THEN P
                   ELSE MapPut(P, b, MapGet(P, b, <<>>) \o M[b]), b + 1)

Discover ==
  /\ pc = "discover"
  /\ BBs' = BBs \o [b \in 1..Len(M) |-> b]
  /\ SingleBBs' = SingleBBs \o Classify(1, TRUE)
  /\ MultiBBs' = MultiBBs \o Classify(1, FALSE)
  /\ Preds' = AppendPreds(Preds, 1)
  /\ pc' = "keys"
  /\ UNCHANGED <<M, runs, Keys, SingleHash, Hashes, Params, Solv, UnSolv, HashMap,
                 FreeHashes, globalY, y, i, Emitted, junk>>

(* step 2 (lines 98-102, 263): Keys[BB] = AFL_R(MAP_SIZE) for every BB.    *)
AssignUniqueRandomKeysToBBs ==
  /\ pc = "keys"
  /\ \E k \in [Range(BBs) -> 0..(MAP_SIZE - 1)] : Keys' = k @@ Keys
  /\ pc' = "fmul_trial"
  /\ y' = 1
  /\ UNCHANGED <<M, runs, BBs, MultiBBs, SingleBBs, Preds, SingleHash, Hashes, Params,
                 Solv, UnSolv, HashMap, FreeHashes, globalY, i, Emitted, junk>>

----------------------------------------------------------------------------
(* CalcFmul (lines 112-169).                                               *)

\* lines 113-117: loop test on y, then the reset that opens a trial
CalcFmulTrial ==
  /\ pc = "fmul_trial"
  /\ IF y <= MAP_SIZE_POW2
     THEN /\ Hashes' = {}
          /\ Params' = EmptyMap
          /\ Solv' = <<>>
          /\ UnSolv' = <<>>
          /\ i' = 1
          /\ pc' = "fmul_block"
     ELSE /\ pc' = "fhash_create"
          /\ UNCHANGED <<Hashes, Params, Solv, UnSolv, i>>
  /\ UNCHANGED <<M, runs, BBs, MultiBBs, SingleBBs, Preds, Keys, SingleHash, HashMap,
                 FreeHashes, globalY, y, Emitted, junk>>

\* lines 119-162: one iteration of the loop over MultiBBs
CalcFmulBlock ==
  /\ pc = "fmul_block"
  /\ i <= Len(MultiBBs)
  /\ LET BB == MultiBBs[i]
         found == SearchX(BB, 1)
     IN /\ IF found # <<>>
           THEN /\ Solv' = Append(Solv, BB)
                /\ Params' = MapPut(Params, BB, found)
                /\ Hashes' = Hashes \cup tmpHashSet(BB, found[1], found[2])
                /\ UnSolv' = UnSolv
           ELSE /\ UnSolv' = Append(UnSolv, BB)
                /\ UNCHANGED <<Solv, Params, Hashes>>
        /\ Preds' = MapTouch(Preds, BB, <<>>)
  /\ i' = i + 1
  /\ UNCHANGED <<M, pc, runs, BBs, MultiBBs, SingleBBs, Keys, SingleHash, HashMap,
                 FreeHashes, globalY, y, Emitted, junk>>

\* lines 164-168: end of a trial
CalcFmulTrialEnd ==
  /\ pc = "fmul_block"
  /\ i > Len(MultiBBs)
  /\ IF UnSolv = <<>>
     THEN /\ globalY' = y
          /\ pc' = "fhash_create"
          /\ y' = y
     ELSE /\ y' = y + 1
          /\ pc' = "fmul_trial"
          /\ globalY' = globalY
  /\ UNCHANGED <<M, runs, BBs, MultiBBs, SingleBBs, Preds, Keys, SingleHash, Hashes,
                 Params, Solv, UnSolv, HashMap, FreeHashes, i, Emitted, junk>>

----------------------------------------------------------------------------
(* RandomPopFreeHashes (lines 171-176).                                    *)

\* line 172: *FreeHashes.begin() is the smallest free slot.  On an empty set
\* begin() == end() and the dereference is undefined: either the process dies
\* (action PopCrash) or the read yields whatever lies behind the header of the
\* empty set: any slot, or a value beyond the map (written MAP_SIZE here).
\* Reading the same place of the same empty set again yields the same value.
RandomPopFreeHashes ==
  IF FreeHashes # {} THEN {SetMin(FreeHashes)}
  ELSE IF junk = -1 THEN 0..MAP_SIZE
  ELSE {junk}

----------------------------------------------------------------------------
(* CalcFhash (lines 177-193).                                              *)

\* lines 187-191: the (cur, Keys[P]) pairs the two nested loops visit, in order
RECURSIVE FhashEdges(_)
FhashEdges(k) ==
  IF k > Len(UnSolv) THEN <<>>
  ELSE [j \in 1..Len(MapGet(Preds, UnSolv[k], <<>>)) |->
          <<Keys[UnSolv[k]], Keys[MapGet(Preds, UnSolv[k], <<>>)[j]]>>]
       \o FhashEdges(k + 1)

\* line 179: the first slot the loop considers
FirstFree == 1

\* lines 179-184: every hash from FirstFree to MAP_SIZE-1 that Hashes lacks
\* is inserted into FreeHashes (which is not cleared first)
CalcFhashCreate ==
  /\ pc = "fhash_create"
  /\ FreeHashes' = FreeHashes \cup {hash \in FirstFree..(MAP_SIZE - 1) : hash \notin Hashes}
  /\ i' = 1
  /\ pc' = "fhash_alloc"
  /\ UNCHANGED <<M, runs, BBs, MultiBBs, SingleBBs, Preds, Keys, SingleHash, Hashes,
                 Params, Solv, UnSolv, HashMap, globalY, y, Emitted, junk>>

\* lines 187-192: one HashMap[make_pair(cur, Keys[P])] = RandomPopFreeHashes(),
\* or the end of the loops
CalcFhashAlloc ==
  /\ pc = "fhash_alloc"
  /\ IF i <= Len(FhashEdges(1))
     THEN /\ \E randomHash \in RandomPopFreeHashes :
               /\ FreeHashes' = FreeHashes \ {randomHash}
               /\ Hashes' = Hashes \cup {randomHash}
               /\ HashMap' = MapPut(HashMap, FhashEdges(1)[i], randomHash)
               /\ junk' = IF FreeHashes = {} THEN randomHash ELSE junk
          /\ i' = i + 1
          /\ pc' = pc
     ELSE /\ pc' = "fsingle"
          /\ i' = 1
          /\ UNCHANGED <<FreeHashes, Hashes, HashMap, junk>>
  /\ UNCHANGED <<M, runs, BBs, MultiBBs, SingleBBs, Preds, Keys, SingleHash,
                 Params, Solv, UnSolv, globalY, y, Emitted>>

(* CalcFsingle (lines 195-199): one SingleHash[BB] = RandomPopFreeHashes(), *)
(* or the end of the loop.                                                  *)
CalcFsingle ==
  /\ pc = "fsingle"
  /\ IF i <= Len(SingleBBs)
     THEN /\ \E randomHash \in RandomPopFreeHashes :
               /\ FreeHashes' = FreeHashes \ {randomHash}
               /\ Hashes' = Hashes \cup {randomHash}
               /\ SingleHash' = MapPut(SingleHash, SingleBBs[i], randomHash)
               /\ junk' = IF FreeHashes = {} THEN randomHash ELSE junk
          /\ i' = i + 1
          /\ pc' = pc
     ELSE /\ pc' = "debug"
          /\ i' = 1
          /\ UNCHANGED <<FreeHashes, Hashes, SingleHash, junk>>
  /\ UNCHANGED <<M, runs, BBs, MultiBBs, SingleBBs, Preds, Keys,
                 Params, Solv, UnSolv, HashMap, globalY, y, Emitted>>

\* the allocator is about to be called with nothing left to hand out
PopOnEmpty ==
  /\ FreeHashes = {}
  /\ \/ pc = "fhash_alloc" /\ i <= Len(FhashEdges(1))
     \/ pc = "fsingle" /\ i <= Len(SingleBBs)

\* line 172 on an empty set, the outcome in which the read faults
PopCrash ==
  /\ PopOnEmpty
  /\ pc' = "crashed"
  /\ UNCHANGED <<M, runs, BBs, MultiBBs, SingleBBs, Preds, Keys, SingleHash, Hashes,
                 Params, Solv, UnSolv, HashMap, FreeHashes, globalY, y, i, Emitted, junk>>

----------------------------------------------------------------------------
(* The DEBUG dump (lines 274-291).  Line 283 reads Params[BB][0] and       *)
(* Params[BB][1] for every block of MultiBBs; operator[] inserts the       *)
(* value-initialised pair {0, 0} for each block the search left unsolved.  *)

RECURSIVE TouchParams(_, _)
TouchParams(P, k) ==
  IF k > Len(MultiBBs) THEN P
  ELSE TouchParams(MapTouch(P, MultiBBs[k], <<0, 0>>), k + 1)

DebugDump ==
  /\ pc = "debug"
  /\ Params' = TouchParams(Params, 1)
  /\ pc' = "emit"
  /\ UNCHANGED <<M, runs, BBs, MultiBBs, SingleBBs, Preds, Keys, SingleHash, Hashes,
                 Solv, UnSolv, HashMap, FreeHashes, globalY, y, i, Emitted, junk>>

----------------------------------------------------------------------------
(* The emission loop (lines 295-337).                                      *)

\* lines 311-322 and 332-333: what is generated at the head of block BB.
\* kind "null" is MapPtrIdx left NULL (neither branch taken).
EmitBlock(BB) ==
  IF BB \in DOMAIN SingleHash
  THEN [kind |-> "fixed", slot |-> SingleHash[BB], x |-> 0, z |-> 0,
        prev_loc |-> Shr(Keys[BB], globalY)]
  ELSE IF BB \in DOMAIN Params
  THEN [kind |-> "parametric", slot |-> 0, x |-> Params[BB][1], z |-> Params[BB][2],
        prev_loc |-> Shr(Keys[BB], globalY)]
  ELSE [kind |-> "null", slot |-> 0, x |-> 0, z |-> 0,
        prev_loc |-> Shr(Keys[BB], globalY)]

\* lines 315 and 319-321: the index the generated code of block cur adds to the
\* map pointer when control arrives from block pred, whose generated code
\* stored __afl_prev_loc (line 333)
RuntimeSlot(pred, cur) ==
  IF Emitted[cur].kind = "fixed" THEN Emitted[cur].slot
  ELSE Xor(Emitted[pred].prev_loc, Shr(Keys[cur], Emitted[cur].x)) + Emitted[cur].z

Emit ==
  /\ pc = "emit"
  /\ Emitted' = [BB \in Range(BBs) |-> EmitBlock(BB)]
  /\ pc' \in (IF \E BB \in Range(BBs) : EmitBlock(BB).kind = "null"
              THEN {"crashed", "done"} ELSE {"done"})
  /\ UNCHANGED <<M, runs, BBs, MultiBBs, SingleBBs, Preds, Keys, SingleHash, Hashes,
                 Params, Solv, UnSolv, HashMap, FreeHashes, globalY, y, i, junk>>

----------------------------------------------------------------------------
(* A further invocation of runOnModule in the same process: the globals    *)
(* of lines 60-70 are not touched between invocations.                     *)

RunAgain ==
  /\ pc = "done"
  /\ runs < MaxRuns
  /\ runs' = runs + 1
  /\ pc' = "discover"
  /\ y' = 0
  /\ i' = 0
  /\ Emitted' = EmptyMap
  /\ UNCHANGED <<M, BBs, MultiBBs, SingleBBs, Preds, Keys, SingleHash, Hashes,
                 Params, Solv, UnSolv, HashMap, FreeHashes, globalY, junk>>

----------------------------------------------------------------------------

Next ==
  \/ Discover
  \/ AssignUniqueRandomKeysToBBs
  \/ CalcFmulTrial
  \/ CalcFmulBlock
  \/ CalcFmulTrialEnd
  \/ CalcFhashCreate
  \/ CalcFhashAlloc
  \/ CalcFsingle
  \/ PopCrash
  \/ DebugDump
  \/ Emit

\* one invocation of the pass per process
Spec == Init /\ [][Next]_vars

NextRerun == Next \/ RunAgain

\* the pass invoked up to MaxRuns times in one process
SpecRerun == InitRerun /\ [][NextRerun]_vars

NextSearch ==
  \/ Discover
  \/ AssignUniqueRandomKeysToBBs
  \/ CalcFmulTrial
  \/ CalcFmulBlock
  \/ CalcFmulTrialEnd

\* discovery, key assignment and CalcFmul alone
SpecSearch == Init /\ [][NextSearch]_vars

----------------------------------------------------------------------------
(* Vocabulary of the properties.                                           *)

PredsOf(b) == MapGet(Preds, b, <<>>)

\* the directed edges (pred, cur) of the discovered graph
Edges == {e \in Range(BBs) \X Range(BBs) : e[1] \in Range(PredsOf(e[2]))}

Slots == 0..(MAP_SIZE - 1)

AfterSearch == pc \in {"fhash_create", "fhash_alloc", "fsingle", "debug", "emit", "done"}

AfterFallback == pc \in {"debug", "emit", "done"}

\* the candidate y of the trial whose Params, Hashes and UnSolv were left behind:
\* the loop variable at the break of line 166, or the last candidate when the
\* loop of line 113 ran to its end
TrialY == IF y > MAP_SIZE_POW2 THEN MAP_SIZE_POW2 ELSE y

\* the hash the search committed for edge (pred, cur) of a solved block
CommittedHash(pred, cur) ==
  EdgeHash(Keys[cur], Keys[pred], Params[cur][1], TrialY, Params[cur][2])

\* the slot the three tables hold for edge (pred, cur) once the fallback is done
AssignedSlot(pred, cur) ==
  IF cur \in DOMAIN SingleHash THEN SingleHash[cur]
  ELSE IF cur \in Range(Solv) THEN CommittedHash(pred, cur)
  ELSE MapGet(HashMap, <<Keys[cur], Keys[pred]>>, MAP_SIZE)

----------------------------------------------------------------------------
(* C1. Uniqueness: once CalcFmul, CalcFhash and CalcFsingle have run on a  *)
(* graph of at most MAP_SIZE edges, no two distinct edges hold the same    *)
(* slot, whatever keys were drawn.                                         *)
C1_Uniqueness ==
  (AfterFallback /\ Cardinality(Edges) <= MAP_SIZE) =>
    \A e1 \in Edges : \A e2 \in Edges :
      e1 # e2 => AssignedSlot(e1[1], e1[2]) # AssignedSlot(e2[1], e2[2])

(* C2. For every solved block and every predecessor, the slot the emitted  *)
(* code computes equals the hash the search committed, both being          *)
(* ((cur_key >> x) XOR (pred_key >> y)) + z.                               *)
C2_EmittedEqualsCommitted ==
  pc = "done" =>
    \A cur \in Range(Solv) : \A pred \in Range(PredsOf(cur)) :
      /\ RuntimeSlot(pred, cur) = CommittedHash(pred, cur)
      /\ CommittedHash(pred, cur) =
           Xor(Shr(Keys[cur], Params[cur][1]), Shr(Keys[pred], TrialY)) + Params[cur][2]

(* C3. CapacityExhausted: a request to the allocator while FreeHashes is   *)
(* empty ends the run; it hands out no slot and the run goes no further.   *)
C3_CapacityExhausted ==
  [][PopOnEmpty =>
       /\ pc' = "crashed"
       /\ HashMap' = HashMap /\ SingleHash' = SingleHash /\ Hashes' = Hashes]_vars

(* C4. Completeness: at the end of a run every block with a predecessor is *)
(* emitted with its resolved strategy: the fixed slot of SingleHash, the   *)
(* parameters the search found, or the HashMap slots of its edges.         *)
C4_Completeness ==
  pc = "done" =>
    \A cur \in Range(BBs) :
      PredsOf(cur) # <<>> =>
        \/ /\ cur \in Range(SingleBBs)
           /\ Emitted[cur].kind = "fixed"
           /\ Emitted[cur].slot = SingleHash[cur]
        \/ /\ cur \in Range(Solv)
           /\ Emitted[cur].kind = "parametric"
        \/ /\ cur \in Range(UnSolv)
           /\ \A pred \in Range(PredsOf(cur)) :
                /\ <<Keys[cur], Keys[pred]>> \in DOMAIN HashMap
                /\ RuntimeSlot(pred, cur) = HashMap[<<Keys[cur], Keys[pred]>>]

(* C5. After the search, globalY is the candidate y of the trial whose     *)
(* Params, Hashes and UnSolv are the search's output.                      *)
C5_GlobalShiftIsTrialY == AfterSearch => globalY = TrialY

(* C6. A block without predecessors is no candidate of the search and no   *)
(* consumer of the allocator, and gets no incoming-edge bitmap update.     *)
C6_ZeroPredExcluded ==
  pc = "done" =>
    \A b \in Range(BBs) :
      PredsOf(b) = <<>> =>
        /\ b \notin DOMAIN Params
        /\ b \notin Range(Solv) \cup Range(UnSolv)
        /\ b \notin DOMAIN SingleHash
        /\ Emitted[b].kind \notin {"fixed", "parametric"}

(* C7. Every invocation of runOnModule starts with all tables empty.       *)
C7_CleanStart ==
  pc = "discover" =>
    /\ BBs = <<>> /\ SingleBBs = <<>> /\ MultiBBs = <<>>
    /\ Preds = EmptyMap /\ Keys = EmptyMap
    /\ Hashes = {} /\ FreeHashes = {}
    /\ Params = EmptyMap /\ Solv = <<>> /\ UnSolv = <<>>
    /\ HashMap = EmptyMap /\ SingleHash = EmptyMap

(* C8. Every committed hash, every slot the emitted parametric code        *)
(* computes and every slot the allocator hands out lies in [0, MAP_SIZE).  *)
C8_SlotsInRange ==
  /\ Hashes \subseteq Slots
  /\ \A k \in DOMAIN HashMap : HashMap[k] \in Slots
  /\ \A b \in DOMAIN SingleHash : SingleHash[b] \in Slots
  /\ pc = "done" =>
       \A e \in Edges : RuntimeSlot(e[1], e[2]) \in Slots

\* the hashes of block b's incoming edges under (x, z), one per predecessor
C9Hashes(b, x, z) ==
  [k \in 1..Len(PredsOf(b)) |-> EdgeHash(Keys[b], Keys[PredsOf(b)[k]], x, y, z)]

\* pairwise distinct, and none of them committed so far in this trial
C9Good(b, x, z) ==
  LET h == C9Hashes(b, x, z) IN
    /\ \A j \in 1..Len(h) : \A k \in 1..Len(h) : j # k => h[j] # h[k]
    /\ \A k \in 1..Len(h) : h[k] \notin Hashes

\* the order of enumeration: x outer, z inner
C9Earlier(p, q) == p[1] < q[1] \/ (p[1] = q[1] /\ p[2] < q[2])

(* C9. First fit without rollback: one iteration of the loop over MultiBBs *)
(* records the block in Solv with the first (x, z), x outer and z inner,   *)
(* whose hashes over its predecessors are pairwise distinct and disjoint   *)
(* from Hashes, and adds those hashes to Hashes; with no such pair it      *)
(* records the block in UnSolv and leaves Hashes, Params and Solv alone.   *)
C9_FirstFit ==
  [][(pc = "fmul_block" /\ i <= Len(MultiBBs)) =>
       LET b == MultiBBs[i]
           good == {p \in (1..MAP_SIZE_POW2) \X (1..MAP_SIZE_POW2) : C9Good(b, p[1], p[2])}
       IN /\ i' = i + 1
          /\ good # {} =>
               LET first == CHOOSE p \in good : \A q \in good : ~C9Earlier(q, p) IN
                 /\ Solv' = Append(Solv, b)
                 /\ Params' = MapPut(Params, b, first)
                 /\ Hashes' = Hashes \cup Range(C9Hashes(b, first[1], first[2]))
                 /\ UnSolv' = UnSolv
          /\ good = {} =>
               /\ UnSolv' = Append(UnSolv, b)
               /\ Hashes' = Hashes /\ Params' = Params /\ Solv' = Solv]_vars

\* a second block was solved, and not with the first pair
C9_Witness ==
  /\ pc = "fmul_block"
  /\ Len(Solv) = 2
  /\ Params[Solv[2]] # <<1, 1>>
  /\ Hashes # {}

(* C10. From the start of the fallback phase on, FreeHashes and Hashes are *)
(* disjoint and together make up [0, MAP_SIZE).                            *)
C10_FreeIsComplement ==
  (pc \in {"fhash_alloc", "fsingle"} \/ AfterFallback) =>
    /\ FreeHashes \cap Hashes = {}
    /\ FreeHashes \cup Hashes = Slots

====
